---- MODULE Spec2Model ----
(***************************************************************************)
(* The loadprobs management command of ctflex                              *)
(* (src/django/ctflex/management/commands/loadprobs.py).                   *)
(*                                                                         *)
(* State: the problems directory tree (window folders, problem folders,    *)
(* their problem.yaml / static / .uuid / .uuid.rejected files), the        *)
(* CtfProblem table, the intermediate static location, and the locals of   *)
(* Command.handle (options, errors, processed_problems, loop position).    *)
(* A text (file content, identifier, basename) is a sequence of tokens;    *)
(* the token "\n" is whitespace.                                           *)
(***************************************************************************)
EXTENDS Integers, Sequences, FiniteSets, TLC

\* Number of invocations of the command that the model follows.
MaxRuns == 2

-----------------------------------------------------------------------------
\* Texts

WS == "\n"

NoFile == <<"<absent>">>

NoUuid == <<"<None>">>

\* str.strip(): leading and trailing whitespace removed.
RECURSIVE LStrip(_)
LStrip(t) == IF t # <<>> /\ Head(t) = WS THEN LStrip(Tail(t)) ELSE t

RECURSIVE RStrip(_)
RStrip(t) ==
    IF t # <<>> /\ t[Len(t)] = WS THEN RStrip(SubSeq(t, 1, Len(t) - 1)) ELSE t

Strip(t) == RStrip(LStrip(t))

\* Tokens that have the shape UUID_REGEX describes.
UuidTokens == {"u1", "x", "f1", "f2", "f3", "f4", "f5", "f6"}

\* re.match('{}$'.format(UUID_REGEX), uuid): the whole text is one UUID.
MatchesUuidRegex(t) == Len(t) = 1 /\ t[1] \in UuidTokens

\* uuid.uuid4(), the default of CtfProblem.id: the n-th identifier generated.
FreshTokens == <<"f1", "f2", "f3", "f4", "f5", "f6">>

Uuid4(n) == <<FreshTokens[n]>>

\* basename.startswith('_')
StartsWithUnderscore(name) == Len(name) > 0 /\ name[1] = "_"

-----------------------------------------------------------------------------
\* The directory tree under PROBLEMS_DIR

Yamls == {"missing", "invalid", "valid"}

Statics == {"none", "ok", "unreadable"}

FileEntry == [name |-> <<"notes">>, isfile |-> TRUE, yaml |-> "missing", static |-> "none"]

PrivateProblem == [name |-> <<"_", "draft">>, isfile |-> FALSE, yaml |-> "valid", static |-> "ok"]

\* A problem folder without problem.yaml is given no static folder.
PublicProblems(nm) ==
    { e \in [name : {nm}, isfile : {FALSE}, yaml : Yamls, static : Statics] :
        e.yaml = "missing" => e.static = "none" }

\* Contents a .uuid file of the tree may start with.
UuidContents == {NoFile, <<"u1">>, <<"u1", WS>>, <<"bad">>}

\* The record of a problem that is in the table but not in the tree.
Foreign == <<0, 0>>

ForeignRecord == [id |-> <<"x">>, src |-> Foreign]

Answers == {"yes", "no", "y"}

NoAnswer == "<none>"

-----------------------------------------------------------------------------
\* State

VARIABLES
    tree,           \* PROBLEMS_DIR: the listing of window entries, each with its problem entries
    uuidFile,       \* slot -> content of <problem dir>/.uuid, or NoFile
    rejectedFile,   \* slot -> content of <problem dir>/.uuid.rejected, or NoFile
    db,             \* the CtfProblem table: records [id, src], src the slot whose data is stored
    staticExists,   \* isdir(PROBLEMS_STATIC_DIR)
    staticSub,      \* sub-directories of PROBLEMS_STATIC_DIR: [id, from, complete]
    nextFresh,      \* how many identifiers uuid4 has generated, plus one
    runs,           \* invocations of the command so far
    pc,             \* position in Command.handle
    pos,            \* <<window index, problem index>> of the two nested walks
    debug,          \* options['debug']
    interactive,    \* options['interactive']
    clear,          \* options['clear']
    answer,         \* what the operator typed at the last prompt
    errors,         \* self.errors
    processed,      \* processed_problems
    outcome,        \* how the invocation ended, or "running"
    prevOutcome,    \* how the invocation before this one ended
    prevClear,      \* options['clear'] of the invocation before this one
    dbStart,        \* the table when the invocation started
    staticStart,    \* the static location when the invocation started
    saved,          \* identifiers whose record problem.save() stored in this invocation
    wrote,          \* slots whose .uuid file this invocation wrote
    visits          \* the problem directories this invocation tried to import, in order

vars == <<tree, uuidFile, rejectedFile, db, staticExists, staticSub, nextFresh, runs,
          pc, pos, debug, interactive, clear, answer, errors, processed, outcome,
          dbStart, staticStart, saved, wrote, visits, prevOutcome, prevClear>>

fsVars == <<tree, uuidFile, rejectedFile>>

optVars == <<debug, interactive, clear, prevOutcome, prevClear>>

Window(nm, file, hasRec, ps) ==
    [name |-> nm, isfile |-> file, hasWindow |-> hasRec, probs |-> ps]

Trees ==
    { << Window(<<"w1">>, FALSE, TRUE, <<p1, p2>>),
         Window(<<"README">>, TRUE, FALSE, <<>>),
         Window(<<"_", "old">>, FALSE, TRUE, << [PrivateProblem EXCEPT !.name = <<"q">>] >>),
         Window(<<"w2">>, FALSE, rec,
                << [name |-> <<"p3">>, isfile |-> FALSE, yaml |-> "valid", static |-> "ok"] >>) >> :
        p1 \in PublicProblems(<<"p1">>),
        p2 \in PublicProblems(<<"p2">>) \cup {FileEntry, PrivateProblem},
        rec \in BOOLEAN }

SlotsOf(t) == { <<w, p>> \in (DOMAIN t) \X (1..2) : p \in DOMAIN t[w].probs }

Entry(s) == tree[s[1]].probs[s[2]]

\* As WalkSkips, without the check for a leading underscore.
WalkSkips_FilesOnly(e) == e.isfile

\* Command.walk skips an entry that is a file or whose name begins with '_'.
WalkSkips(e) == e.isfile \/ StartsWithUnderscore(e.name)

\* The slots of tree t that are directories without a leading underscore, inside
\* such a directory.
PublicSlotsOf(t) ==
    { s \in SlotsOf(t) :
        /\ ~t[s[1]].isfile /\ Head(t[s[1]].name) # "_"
        /\ ~t[s[1]].probs[s[2]].isfile /\ Head(t[s[1]].probs[s[2]].name) # "_" }

Ids(table) == { r.id : r \in table }

Init ==
    /\ tree \in Trees
    /\ uuidFile \in { f \in [SlotsOf(tree) -> UuidContents] :
                        \A s \in SlotsOf(tree) :
                            f[s] # NoFile =>
                                /\ s \in PublicSlotsOf(tree)
                                /\ s[1] = 1
                                /\ tree[s[1]].probs[s[2]].yaml # "missing" }
    /\ rejectedFile = [s \in SlotsOf(tree) |-> NoFile]
    /\ db = {ForeignRecord}
    /\ staticExists = FALSE
    /\ staticSub = {}
    /\ nextFresh = 1
    /\ runs = 0
    /\ pc = "idle"
    /\ pos = <<1, 0>>
    /\ debug = FALSE
    /\ interactive = FALSE
    /\ clear = FALSE
    /\ answer = NoAnswer
    /\ errors = <<>>
    /\ processed = <<>>
    /\ outcome = "none"
    /\ prevOutcome = "none"
    /\ prevClear = FALSE
    /\ dbStart = db
    /\ staticStart = {}
    /\ saved = {}
    /\ wrote = {}
    /\ visits = <<>>

-----------------------------------------------------------------------------
\* Command.handle, up to the walk

\* handle() is called with its options; errors and processed_problems start empty.
Start ==
    /\ pc = "idle"
    /\ runs < MaxRuns
    /\ runs' = runs + 1
    /\ debug' \in BOOLEAN
    /\ interactive' \in BOOLEAN
    /\ clear' \in BOOLEAN
    /\ errors' = <<>>
    /\ processed' = <<>>
    /\ outcome' = "running"
    /\ prevOutcome' = outcome
    /\ prevClear' = clear
    /\ answer' = NoAnswer
    /\ dbStart' = db
    /\ staticStart' = staticSub
    /\ saved' = {}
    /\ wrote' = {}
    /\ visits' = <<>>
    /\ pos' = <<1, 0>>
    /\ pc' = "static"
    /\ UNCHANGED <<tree, uuidFile, rejectedFile, db, staticExists, staticSub, nextFresh>>

\* As Declined, with 'y' taken as consent too.
Declined_AcceptsY(inter, a) == inter /\ a \notin {"yes", "y"}

\* options['interactive'] and input(message) != "yes"
Declined(inter, a) == inter /\ a # "yes"

\* What is typed at a prompt; input() is not called when interactive is off.
Typed(inter) == IF inter THEN Answers ELSE {NoAnswer}

\* Where the walk stands once `p` is the next position: past the last window the
\* walk is over.
WalkTo(p) ==
    /\ pos' = p
    /\ pc' = IF p[1] > Len(tree) THEN "clear" ELSE "walk"

\* raise CommandError("Loading problems cancelled.")
Cancel ==
    /\ outcome' = "CommandError"
    /\ pc' = "idle"
    /\ UNCHANGED pos

\* Delete any existing files after confirmation, then makedirs.
PrepareStatic ==
    /\ pc = "static"
    /\ IF staticExists
       THEN \E a \in Typed(interactive) :
              /\ answer' = a
              /\ IF Declined(interactive, a)
                 THEN Cancel /\ UNCHANGED <<staticExists, staticSub>>
                 ELSE /\ staticSub' = {}
                      /\ staticExists' = TRUE
                      /\ WalkTo(<<1, 0>>)
                      /\ UNCHANGED outcome
       ELSE /\ staticExists' = TRUE
            /\ staticSub' = {}
            /\ WalkTo(<<1, 0>>)
            /\ UNCHANGED <<answer, outcome>>
    /\ UNCHANGED <<fsVars, optVars, db, nextFresh, runs, errors, processed,
                   dbStart, staticStart, saved, wrote, visits>>

-----------------------------------------------------------------------------
\* One problem directory: the body of the inner loop of Command.handle

\* isfile(uuid_path)
HasUuidFile(s) == uuidFile[s] # NoFile

\* uuid_file.read().strip()
ReadUuid(s) == Strip(uuidFile[s])

\* The .uuid file exists and its stripped content does not match UUID_REGEX.
Rejects(s) == HasUuidFile(s) /\ ~MatchesUuidRegex(ReadUuid(s))

\* data[PK_FIELD] after the UUID stage: set from the file before it is validated,
\* and absent when there is no file.
DataId(s) == IF HasUuidFile(s) THEN ReadUuid(s) ELSE NoUuid

\* The local `uuid` after the UUID stage: None for a missing or rejected file.
UuidOf(s) == IF HasUuidFile(s) /\ ~Rejects(s) THEN ReadUuid(s) ELSE NoUuid

\* shutil.move(uuid_path, backip_uuid_path)
UuidFileAfterCheck(s) ==
    IF Rejects(s) THEN [uuidFile EXCEPT ![s] = NoFile] ELSE uuidFile

RejectedAfterCheck(s) ==
    IF Rejects(s) THEN [rejectedFile EXCEPT ![s] = uuidFile[s]] ELSE rejectedFile

\* Window.objects.get(code=window_basename) raises DoesNotExist without a record.
WindowMissing(s) == ~tree[s[1]].hasWindow

\* As TakesUpdate, without asking whether the record exists.
TakesUpdate_WithoutExists(s) == UuidOf(s) # NoUuid

\* uuid and CtfProblem.objects.filter(id=uuid).exists()
TakesUpdate(s) == UuidOf(s) # NoUuid /\ UuidOf(s) \in Ids(db)

\* The create branch calls the id default only when data carries no id.
UsesDefaultId(s) == ~TakesUpdate(s) /\ DataId(s) = NoUuid

\* As ProblemId, with the id of the data dropped before the record is constructed.
ProblemId_DropsDataId(s) ==
    IF UuidOf(s) # NoUuid /\ UuidOf(s) \in Ids(db) THEN UuidOf(s) ELSE Uuid4(nextFresh)

\* problem.id: of the record fetched, or of CtfProblem(**data).
ProblemId(s) ==
    IF TakesUpdate(s) THEN UuidOf(s)
    ELSE IF DataId(s) # NoUuid THEN DataId(s)
    ELSE Uuid4(nextFresh)

\* The create branch writes str(problem.id) to the .uuid file.
UuidFileAfterBranch(s) ==
    IF TakesUpdate(s) THEN UuidFileAfterCheck(s)
    ELSE [UuidFileAfterCheck(s) EXCEPT ![s] = ProblemId(s)]

WroteAfterBranch(s) == IF TakesUpdate(s) THEN wrote ELSE wrote \cup {s}

FreshAfterBranch(s) == IF UsesDefaultId(s) THEN nextFresh + 1 ELSE nextFresh

\* problem.save() raises ValidationError: the data does not validate, or the
\* id is not a UUID.
SaveRaises(s) == Entry(s).yaml = "invalid" \/ ~MatchesUuidRegex(ProblemId(s))

\* problem.save(): the row with this primary key is replaced or inserted.
SaveProblem(s) ==
    { r \in db : r.id # ProblemId(s) } \cup {[id |-> ProblemId(s), src |-> s]}

\* static_to = join(PROBLEMS_STATIC_DIR, str(uuid))
StaticTo(s) == ProblemId(s)

\* isdir(static_from)
HasStatic(s) == Entry(s).static # "none"

\* copytree raises: the destination exists already, or a file cannot be read.
CopyRaises(s) ==
    HasStatic(s) /\ (StaticTo(s) \in Ids(staticSub) \/ Entry(s).static = "unreadable")

\* shutil.copytree(static_from, static_to): nothing is copied over an existing
\* destination; an unreadable file leaves the copy incomplete.
CopyStatic(s) ==
    IF ~HasStatic(s) \/ StaticTo(s) \in Ids(staticSub) THEN staticSub
    ELSE staticSub \cup
           {[id |-> StaticTo(s), from |-> s, complete |-> Entry(s).static = "ok"]}

\* The position after entry `p` of the walks.
NextPos(p) ==
    IF p[2] > 0 /\ p[2] < Len(tree[p[1]].probs) THEN <<p[1], p[2] + 1>>
    ELSE <<p[1] + 1, 0>>

Visit(s, branch, result) ==
    [slot |-> s, before |-> uuidFile[s], branch |-> branch, id |-> ProblemId(s),
     result |-> result]

\* As HandleError, raising in every mode.
HandleError_AlwaysRaises(s, kind) ==
    /\ outcome' = "Raised"
    /\ pc' = "idle"
    /\ UNCHANGED <<errors, pos>>

\* handle_error(err): raise in debug mode, else collect and `continue`.
HandleError(s, kind) ==
    IF debug
    THEN /\ outcome' = "Raised"
         /\ pc' = "idle"
         /\ UNCHANGED <<errors, pos>>
    ELSE /\ errors' = Append(errors, [slot |-> s, kind |-> kind])
         /\ WalkTo(NextPos(pos))
         /\ UNCHANGED outcome

AtWindow == pc = "walk" /\ pos[2] = 0

AtProblem == pc = "walk" /\ pos[2] > 0

Branch(s) == IF TakesUpdate(s) THEN "update" ELSE "create"

walkFrame == <<optVars, runs, answer, dbStart, staticStart, tree, staticExists>>

\* walk(PROBLEMS_DIR) ignores the entry.
SkipWindow ==
    /\ AtWindow
    /\ WalkSkips(tree[pos[1]])
    /\ WalkTo(NextPos(pos))
    /\ UNCHANGED <<walkFrame, uuidFile, rejectedFile, db, staticSub, nextFresh,
                   errors, processed, outcome, saved, wrote, visits>>

\* walk(PROBLEMS_DIR) yields the entry and walk(window_path) lists it.
EnterWindow ==
    /\ AtWindow
    /\ ~WalkSkips(tree[pos[1]])
    /\ WalkTo(IF tree[pos[1]].probs = <<>> THEN NextPos(pos) ELSE <<pos[1], 1>>)
    /\ UNCHANGED <<walkFrame, uuidFile, rejectedFile, db, staticSub, nextFresh,
                   errors, processed, outcome, saved, wrote, visits>>

\* walk(window_path) ignores the entry.
SkipProblem ==
    /\ AtProblem
    /\ WalkSkips(Entry(pos))
    /\ WalkTo(NextPos(pos))
    /\ UNCHANGED <<walkFrame, uuidFile, rejectedFile, db, staticSub, nextFresh,
                   errors, processed, outcome, saved, wrote, visits>>

\* problem.yaml is missing or is a directory.
ImportNoYaml ==
    /\ AtProblem
    /\ ~WalkSkips(Entry(pos))
    /\ Entry(pos).yaml = "missing"
    /\ visits' = Append(visits, [Visit(pos, "none", "no-yaml") EXCEPT !.id = NoUuid])
    /\ HandleError(pos, "FileNotFoundError")
    /\ UNCHANGED <<walkFrame, uuidFile, rejectedFile, db, staticSub, nextFresh,
                   processed, saved, wrote>>

\* The window has no Window record: DoesNotExist is not caught, after the UUID stage.
ImportNoWindow ==
    /\ AtProblem
    /\ ~WalkSkips(Entry(pos))
    /\ Entry(pos).yaml # "missing"
    /\ WindowMissing(pos)
    /\ uuidFile' = UuidFileAfterCheck(pos)
    /\ rejectedFile' = RejectedAfterCheck(pos)
    /\ visits' = Append(visits, [Visit(pos, "none", "no-window") EXCEPT !.id = NoUuid])
    /\ outcome' = "DoesNotExist"
    /\ pc' = "idle"
    /\ UNCHANGED <<walkFrame, db, staticSub, nextFresh, errors, processed, pos,
                   saved, wrote>>

\* The record is fetched or constructed, and problem.save() raises ValidationError.
ImportSaveFails ==
    /\ AtProblem
    /\ ~WalkSkips(Entry(pos))
    /\ Entry(pos).yaml # "missing"
    /\ ~WindowMissing(pos)
    /\ SaveRaises(pos)
    /\ uuidFile' = UuidFileAfterBranch(pos)
    /\ rejectedFile' = RejectedAfterCheck(pos)
    /\ wrote' = WroteAfterBranch(pos)
    /\ nextFresh' = FreshAfterBranch(pos)
    /\ visits' = Append(visits, Visit(pos, Branch(pos), "save-failed"))
    /\ HandleError(pos, "ValidationError")
    /\ UNCHANGED <<walkFrame, db, staticSub, processed, saved>>

\* The record is saved, and copying the static folder raises.
ImportCopyFails ==
    /\ AtProblem
    /\ ~WalkSkips(Entry(pos))
    /\ Entry(pos).yaml # "missing"
    /\ ~WindowMissing(pos)
    /\ ~SaveRaises(pos)
    /\ CopyRaises(pos)
    /\ uuidFile' = UuidFileAfterBranch(pos)
    /\ rejectedFile' = RejectedAfterCheck(pos)
    /\ wrote' = WroteAfterBranch(pos)
    /\ nextFresh' = FreshAfterBranch(pos)
    /\ db' = SaveProblem(pos)
    /\ saved' = saved \cup {ProblemId(pos)}
    /\ staticSub' = CopyStatic(pos)
    /\ visits' = Append(visits, Visit(pos, Branch(pos), "copy-failed"))
    /\ HandleError(pos, "IOError")
    /\ UNCHANGED <<walkFrame, processed>>

\* The record is saved, the static folder copied, the problem marked as processed.
ImportProblem ==
    /\ AtProblem
    /\ ~WalkSkips(Entry(pos))
    /\ Entry(pos).yaml # "missing"
    /\ ~WindowMissing(pos)
    /\ ~SaveRaises(pos)
    /\ ~CopyRaises(pos)
    /\ uuidFile' = UuidFileAfterBranch(pos)
    /\ rejectedFile' = RejectedAfterCheck(pos)
    /\ wrote' = WroteAfterBranch(pos)
    /\ nextFresh' = FreshAfterBranch(pos)
    /\ db' = SaveProblem(pos)
    /\ saved' = saved \cup {ProblemId(pos)}
    /\ staticSub' = CopyStatic(pos)
    /\ processed' = Append(processed, ProblemId(pos))
    /\ visits' = Append(visits, Visit(pos, Branch(pos), "imported"))
    /\ WalkTo(NextPos(pos))
    /\ UNCHANGED <<walkFrame, errors, outcome>>

-----------------------------------------------------------------------------
\* Command.handle, after the walk

\* CtfProblem.objects.exclude(pk__in=processed_problems)
Unprocessed == { r \in db : \A i \in DOMAIN processed : processed[i] # r.id }

endFrame == <<fsVars, optVars, staticExists, staticSub, nextFresh, runs, errors,
              processed, dbStart, staticStart, saved, wrote, visits>>

\* Delete existing problems that were not updated if the clear option was given.
ClearUnprocessed ==
    /\ pc = "clear"
    /\ IF clear /\ Unprocessed # {}
       THEN \E a \in Typed(interactive) :
              /\ answer' = a
              /\ IF Declined(interactive, a)
                 THEN Cancel /\ UNCHANGED db
                 ELSE /\ db' = db \ Unprocessed
                      /\ pc' = "report"
                      /\ UNCHANGED <<outcome, pos>>
       ELSE /\ pc' = "report"
            /\ UNCHANGED <<db, answer, outcome, pos>>
    /\ UNCHANGED endFrame

\* Print the stack traces and raise RuntimeError if any error was collected.
Report ==
    /\ pc = "report"
    /\ outcome' = IF ~debug /\ errors # <<>> THEN "RuntimeError" ELSE "ok"
    /\ pc' = "idle"
    /\ UNCHANGED <<endFrame, db, answer, pos>>

Next ==
    \/ Start
    \/ PrepareStatic
    \/ SkipWindow
    \/ EnterWindow
    \/ SkipProblem
    \/ ImportNoYaml
    \/ ImportNoWindow
    \/ ImportSaveFails
    \/ ImportCopyFails
    \/ ImportProblem
    \/ ClearUnprocessed
    \/ Report

Spec == Init /\ [][Next]_vars

-----------------------------------------------------------------------------
\* Properties

Last(q) == q[Len(q)]

\* A step that tried to create or update the record of a problem directory.
Reconciled == Len(visits') = Len(visits) + 1 /\ Last(visits').branch # "none"

\* The .uuid file of slot s holds (stripped) a well-formed UUID.
WellFormedFile(f, s) == f[s] # NoFile /\ MatchesUuidRegex(Strip(f[s]))

Stored(v) == v.result \in {"imported", "copy-failed"}

\* C1: a directory that reaches the create/update step updates the existing
\* record, creating none, exactly when its .uuid file holds a well-formed UUID
\* that is the primary key of a record; in every other case one new record is
\* constructed for it (and, once saved, is the only record added).
C1_UpsertByUuid ==
    [][ Reconciled =>
          LET v == Last(visits')
              s == v.slot
          IN  IF WellFormedFile(uuidFile, s) /\ Strip(uuidFile[s]) \in Ids(db)
              THEN /\ v.branch = "update"
                   /\ Ids(db') = Ids(db)
                   /\ nextFresh' = nextFresh
                   /\ Stored(v) => [id |-> Strip(uuidFile[s]), src |-> s] \in db'
              ELSE /\ v.branch = "create"
                   /\ Stored(v) =>
                        /\ v.id \notin Ids(db)
                        /\ db' = db \cup {[id |-> v.id, src |-> s]}
                   /\ ~Stored(v) => db' = db ]_vars

\* An invocation updated one directory's record and created another's.
C1_Witness ==
    \E i, j \in DOMAIN visits :
        /\ visits[i].branch = "update" /\ visits[i].result = "imported"
        /\ visits[j].branch = "create" /\ visits[j].result = "imported"

\* The set of identifiers is the same after a second invocation that follows a
\* fully successful one.
RerunKeepsIds ==
    (prevOutcome = "ok" /\ pc = "idle" /\ outcome \in {"ok", "RuntimeError", "CommandError"})
        => Ids(db) = Ids(dbStart)

C3_RejectsMalformed ==
    [][ (Reconciled /\ Rejects(Last(visits').slot)) =>
          LET v == Last(visits')
              s == v.slot
          IN  /\ rejectedFile'[s] = uuidFile[s]
              /\ v.branch = "create"
              /\ v.id # Strip(uuidFile[s])
              /\ uuidFile'[s] # NoFile
              /\ MatchesUuidRegex(uuidFile'[s])
              /\ uuidFile'[s] # Strip(uuidFile[s]) ]_vars

ErrorResults == {"no-yaml", "save-failed", "copy-failed"}

\* The slots of the directories the walks are to yield, read off the tree.
PublicSlots == PublicSlotsOf(tree)

Visited == { visits[i].slot : i \in DOMAIN visits }

\* C4: outside debug mode a missing problem.yaml, a ValidationError on save or a
\* failed static copy is appended to the errors, the problem is not marked as
\* processed, and the walk goes on to every remaining directory; in debug mode
\* the error is raised at once and no later directory is processed.
C4_BestEffortErrors ==
    [][ /\ (Len(visits') = Len(visits) + 1 /\ Last(visits').result \in ErrorResults) =>
              IF debug
              THEN /\ outcome' = "Raised" /\ pc' = "idle"
                   /\ errors' = errors /\ processed' = processed
              ELSE /\ Len(errors') = Len(errors) + 1
                   /\ Last(errors').slot = Last(visits').slot
                   /\ SubSeq(errors', 1, Len(errors)) = errors
                   /\ processed' = processed
                   /\ outcome' = "running"
                   /\ pos' = NextPos(pos)
        /\ (outcome = "Raised" /\ pc' = "idle") => visits' = visits
        /\ (pc' \in {"clear", "report"} \/ outcome' \in {"ok", "RuntimeError"}) =>
              Visited' = PublicSlots ]_vars

\* Outside debug mode two directories failed and a later one, in a later window,
\* was imported.
C4_Witness ==
    /\ ~debug
    /\ Len(errors) = 2
    /\ Len(visits) = 3
    /\ visits[3].result = "imported"
    /\ visits[3].slot[1] > visits[1].slot[1]

Ended == pc = "idle" /\ outcome \notin {"none", "running"}

\* C5 as stated: outside debug mode, with or without the clear option, an
\* invocation that ends by itself (no uncaught DoesNotExist) ends with
\* RuntimeError exactly when at least one error was collected.
C5_ReportsCollectedErrors ==
    (Ended /\ ~debug /\ outcome # "DoesNotExist") =>
        (outcome = "RuntimeError" <=> errors # <<>>)

\* A step of the clear stage that leaves it.
ClearStep == pc = "clear" /\ pc' # "clear"

\* C6 as stated: with clear given and confirmed the records deleted are exactly
\* those that existed before the invocation and were not saved by it, so that no
\* record saved by the invocation is deleted; without clear nothing is deleted.
C6_ClearDeletesOnlyStale ==
    [][ /\ ClearStep =>
              IF clear /\ outcome' # "CommandError"
              THEN /\ db' \subseteq db
                   /\ db \ db' = { r \in db : r.id \in Ids(dbStart) /\ r.id \notin saved }
              ELSE db' = db
        /\ ~ClearStep => Ids(db) \subseteq Ids(db') ]_vars

\* C7: in interactive mode an answer other than 'yes' raises CommandError and
\* the guarded step is not performed: at the first prompt the static location is
\* kept and no record is created, updated or deleted; at the clear prompt no
\* record is deleted.
C7_PromptsGuardDestructiveSteps ==
    [][ /\ (pc = "static" /\ staticExists /\ interactive /\ answer' # "yes") =>
              /\ outcome' = "CommandError" /\ pc' = "idle"
              /\ staticExists' /\ staticSub' = staticSub
              /\ db' = db /\ uuidFile' = uuidFile
        /\ (pc = "clear" /\ clear /\ Unprocessed # {} /\ interactive /\ answer' # "yes") =>
              /\ outcome' = "CommandError" /\ pc' = "idle"
              /\ db' = db
        /\ (outcome' = "CommandError" /\ visits' = <<>>) =>
              db' = dbStart' /\ staticSub' = staticStart' ]_vars

\* The operator typed 'y' at the first prompt and the invocation was cancelled
\* with the static location of the previous invocation still in place.
C7_Witness ==
    /\ outcome = "CommandError" /\ answer = "y" /\ visits = <<>>
    /\ staticSub # {}

\* C8: no record, processed mark, .uuid file, static copy or error ever comes
\* from an entry that is a regular file, from a problem directory whose name
\* begins with '_', or from a directory inside a window whose name begins with '_'.
C8_WalkSkipsFilesAndPrivate ==
    /\ \A r \in db : r.src = Foreign \/ r.src \in PublicSlots
    /\ Visited \subseteq PublicSlots
    /\ \A i \in DOMAIN errors : errors[i].slot \in PublicSlots
    /\ \A c \in staticSub : c.from \in PublicSlots
    /\ wrote \subseteq PublicSlots
    /\ \A s \in SlotsOf(tree) \ PublicSlots :
           uuidFile[s] = NoFile /\ rejectedFile[s] = NoFile
    /\ Len(processed) <= Cardinality(PublicSlots)

\* The walk is over, has imported a problem, and has passed a private problem
\* directory, a private window directory and a regular file without an error.
C8_Witness ==
    /\ pc = "report"
    /\ StartsWithUnderscore(tree[1].probs[2].name)
    /\ Len(processed) = 2
    /\ errors = <<>>

\* C9 as stated: at the end of an invocation every .uuid file it wrote names the
\* primary key of a record it persisted.
C9_MarkersMatchRecords ==
    (pc = "idle" /\ outcome \in {"ok", "RuntimeError"}) => \A s \in wrote : uuidFile[s] \in saved /\ uuidFile[s] \in Ids(db)

\* C10 as stated: a run that is not cancelled empties the static location first,
\* and at its end every sub-directory <id> copied without error is the copy of
\* the static folder of the directory whose data the record <id> stores.
C10_StaticMatchesRecords ==
    [][ /\ (pc = "static" /\ pc' = "walk") => staticSub' = {}
        /\ (pc' = "idle" /\ outcome' \in {"ok", "RuntimeError"}) =>
              \A c \in staticSub' :
                  c.complete =>
                      \A r \in db' : r.id = c.id => r.src = c.from ]_vars

====
